---- MODULE Spec2Model ----
(***************************************************************************)
(* A model of the Rambly room engine: RamblyManager (src/src/manager.ts),  *)
(* the state it keeps about one room, its event handlers, its command      *)
(* surface and its follow stepper, on top of RamblyDaemon                  *)
(* (src/src/daemon.ts), which supervises one subordinate process.          *)
(*                                                                         *)
(* Conventions.  A display name is a sequence of characters; JavaScript's  *)
(* null and "" are both falsy and the code only ever tests names for       *)
(* truthiness, so the null name is the empty sequence NoName.  A position  *)
(* is a pair <<x, y>>; an absent position (position?: ...) is NoPos.       *)
(* Distances are compared on their squares: Math.sqrt is monotone and      *)
(* exact on perfect squares, so sqrt(d2) > r  <=>  d2 > r*r on integers.   *)
(***************************************************************************)
EXTENDS Integers, Sequences, FiniteSets, TLC

VARIABLES
    \* RamblyManager.state (manager.ts:20-30)
    connected, room, peerId, agentName, position, peers,
    followTarget, followBreadcrumbs, pendingTranscripts,
    \* RamblyManager.followInterval (manager.ts:14): whether the field holds
    \* a timer, and the number of interval timers armed in the runtime
    followInterval, intervals,
    \* RamblyDaemon.proc, RamblyDaemon._ready (daemon.ts:7-8)
    proc, ready,
    \* the subordinate processes launched so far, the spawn promises join()
    \* awaits, and the timers armed by spawn() and kill()
    procs, promise, spawnTimers, killTimers,
    \* status() calls suspended in their 300 ms wait (manager.ts:243)
    statusWaiting,
    \* RamblyManager.onTranscript (manager.ts:15): 0 for null, else a handler
    onTranscript,
    \* what the last step did: the handler that ran, the commands it wrote
    \* to the subordinate's stdin, the result it returned, and the
    \* transcript-handler invocation it made
    last, sent, ret, heard,
    \* history: followTarget and followBreadcrumbs as they were before the
    \* last step
    was

mvars == <<connected, room, peerId, agentName, position, peers,
           followTarget, followBreadcrumbs, pendingTranscripts>>
dvars == <<proc, ready, procs, promise, spawnTimers, killTimers>>
ovars == <<last, sent, ret, heard, was>>
vars  == <<mvars, followInterval, intervals, dvars, statusWaiting,
           onTranscript, ovars>>

\* the step being taken ran handler `what`
Did(what) ==
    /\ last' = what
    /\ was' = [followTarget |-> followTarget,
               followBreadcrumbs |-> followBreadcrumbs]

---------------------------------------------------------------------------
(* Program constants *)

hearingRadius  == 150
followDistance == 40
followStepSize == 20
MinSpacing     == 5
MaxCrumbs      == 100
MaxTranscripts == 10
InitX          == 250
InitY          == 230

defaultName == <<"A", "g">>

NoName == <<>>
NoPos  == <<>>
NoRoom == "null"
NoId   == "null"
NoProc == 0

InitPos == <<InitX, InitY>>

---------------------------------------------------------------------------
(* Bounds of the model *)

\* subordinate processes one run may launch
MaxProcs == 1
\* breadcrumbs up to which the environment keeps moving peers (general runs)
MaxTrail == 2
\* transcripts the environment delivers in one run (general runs)
MaxHeard == 2
\* subordinate processes a supervision run may launch: one more, so that a
\* join can follow a kill or an exit
SupProcs == 2
\* status() calls suspended at once
MaxWaiting == 1
\* largest coordinate of the grid on which distance() is tabulated
GridMax == 3

---------------------------------------------------------------------------
(* Pure helpers *)

\* String.prototype.toLowerCase on the letters the model's names use
LowerChar(c) ==
    CASE c = "A" -> "a" [] c = "B" -> "b" [] c = "D" -> "d" [] c = "G" -> "g"
      [] c = "O" -> "o" [] c = "V" -> "v" [] OTHER -> c

toLowerCase(s) == [i \in DOMAIN s |-> LowerChar(s[i])]

SameName(a, b) == toLowerCase(a) = toLowerCase(b)

\* a radicand that forgets to square the y difference
DistSqSkewed(a, b) == (a[1] - b[1]) * (a[1] - b[1]) + (a[2] - b[2])

\* (a.x - b.x) ** 2 + (a.y - b.y) ** 2, the radicand of distance()
DistSq(a, b) == (a[1] - b[1]) * (a[1] - b[1]) + (a[2] - b[2]) * (a[2] - b[2])

\* a comparison that excludes the distance r itself
DistLeExclusive(a, b, r) == DistSq(a, b) < r * r

\* distance(a, b) > r, distance(a, b) <= r, distance(a, b) < r
DistGt(a, b, r) == DistSq(a, b) > r * r
DistLe(a, b, r) == DistSq(a, b) <= r * r
DistLt(a, b, r) == DistSq(a, b) < r * r

\* Math.round(Math.sqrt(d2)): the n with n - 1/2 <= sqrt(d2) < n + 1/2
RoundSqrt(d2) ==
    CHOOSE n \in 0..(d2 + 1) :
        /\ (2 * n - 1) * (2 * n - 1) <= 4 * d2 \/ n = 0
        /\ 4 * d2 < (2 * n + 1) * (2 * n + 1)

\* a * sqrt(d2) <= b, decided on integers
MulSqrtLe(a, d2, b) ==
    IF a <= 0
    THEN (b >= 0) \/ (a * a * d2 >= b * b)
    ELSE (b >= 0) /\ (a * a * d2 <= b * b)

\* Math.round(s * d / sqrt(d2)) for d2 > 0: the k with
\* (2k - 1) sqrt(d2) <= 2 s d < (2k + 1) sqrt(d2)  (Math.round rounds half up)
RoundScaled(s, d, d2) ==
    CHOOSE k \in (0 - s)..s :
        /\ MulSqrtLe(2 * k - 1, d2, 2 * s * d)
        /\ ~ MulSqrtLe(2 * k + 1, d2, 2 * s * d)

---------------------------------------------------------------------------
(* RoomState helpers.  state.peers is a JavaScript Map: it iterates in     *)
(* insertion order, set() of a present key keeps the key's place.          *)

Peer(id, name, pos) == [id |-> id, name |-> name, position |-> pos]

IndexOfId(ps, id) ==
    IF \E i \in DOMAIN ps : ps[i].id = id
    THEN CHOOSE i \in DOMAIN ps : ps[i].id = id
    ELSE 0

\* Map.prototype.has
MapHas(ps, id) == IndexOfId(ps, id) # 0

\* Map.prototype.set
MapSet(ps, p) ==
    IF MapHas(ps, p.id)
    THEN [ps EXCEPT ![IndexOfId(ps, p.id)] = p]
    ELSE Append(ps, p)

\* Map.prototype.delete
MapDelete(ps, id) ==
    IF MapHas(ps, id)
    THEN LET k == IndexOfId(ps, id)
         IN  [i \in 1..(Len(ps) - 1) |-> IF i < k THEN ps[i] ELSE ps[i + 1]]
    ELSE ps

\* peers.clear(); for (const p of list) peers.set(p.id, p)
RECURSIVE MapFill(_, _)
MapFill(ps, list) ==
    IF list = <<>> THEN ps ELSE MapFill(MapSet(ps, Head(list)), Tail(list))

\* a findPeerByName that compares names as they are written
findPeerByNameExact(ps, name) ==
    IF \E i \in DOMAIN ps : ps[i].name = name
    THEN CHOOSE i \in DOMAIN ps :
            /\ ps[i].name = name
            /\ \A j \in 1..(i - 1) : ps[j].name # name
    ELSE 0

\* findPeerByName: the index of the first peer, in iteration order, whose
\* lower-cased name equals the lower-cased argument; 0 for undefined
findPeerByName(ps, name) ==
    IF \E i \in DOMAIN ps : SameName(ps[i].name, name)
    THEN CHOOSE i \in DOMAIN ps :
            /\ SameName(ps[i].name, name)
            /\ \A j \in 1..(i - 1) : ~ SameName(ps[j].name, name)
    ELSE 0

\* a recordCrumb that also takes a point exactly at the spacing
recordCrumbAtSpacing(crumbs, p) ==
    IF crumbs = <<>> \/ DistSq(crumbs[Len(crumbs)], p) >= MinSpacing * MinSpacing
    THEN LET pushed == Append(crumbs, p)
         IN  IF Len(pushed) > MaxCrumbs THEN Tail(pushed) ELSE pushed
    ELSE crumbs

\* a recordCrumb that never drops a point
recordCrumbUncapped(crumbs, p) ==
    IF crumbs = <<>> \/ DistGt(crumbs[Len(crumbs)], p, MinSpacing)
    THEN Append(crumbs, p)
    ELSE crumbs

\* const lastCrumb = crumbs[crumbs.length - 1];
\* if (!lastCrumb || distance(lastCrumb, p) > 5) { crumbs.push(p);
\*   if (crumbs.length > 100) crumbs.shift(); }
recordCrumb(crumbs, p) ==
    IF crumbs = <<>> \/ DistGt(crumbs[Len(crumbs)], p, MinSpacing)
    THEN LET pushed == Append(crumbs, p)
         IN  IF Len(pushed) > MaxCrumbs THEN Tail(pushed) ELSE pushed
    ELSE crumbs

\* a stepper that never discards a breadcrumb it has reached
popReachedNever(crumbs, pos) == crumbs

\* while (crumbs.length > 1 && distance(position, crumbs[0]) < followStepSize)
\*   crumbs.shift();
RECURSIVE popReached(_, _)
popReached(crumbs, pos) ==
    IF Len(crumbs) > 1 /\ DistLt(pos, crumbs[1], followStepSize)
    THEN popReached(Tail(crumbs), pos)
    ELSE crumbs

\* a step that goes the whole way to nextPoint
stepTowardWholeWay(pos, nextPoint) == nextPoint

\* The stepper's new position: followStepSize (or the whole way, if nearer)
\* along the direction from pos to nextPoint, each coordinate rounded
stepToward(pos, nextPoint) ==
    LET \* leg = <<pos, nextPoint>>, bound once
        step(leg) ==
            LET dx == leg[2][1] - leg[1][1]
                dy == leg[2][2] - leg[1][2]
                d2 == dx * dx + dy * dy
            IN  IF d2 <= followStepSize * followStepSize
                THEN leg[2]
                ELSE <<leg[1][1] + RoundScaled(followStepSize, dx, d2),
                       leg[1][2] + RoundScaled(followStepSize, dy, d2)>>
    IN  CHOOSE q \in {step(leg) : leg \in {<<pos, nextPoint>>}} : TRUE

---------------------------------------------------------------------------
(* RamblyDaemon (daemon.ts).  procs[p] is the p-th subordinate launched:   *)
(* the room and name it was started with, how far it has got in the        *)
(* protocol (starting, joined, left), whether the operating-system process *)
(* is alive and whether its stdin accepts writes, and whether kill() has   *)
(* been called while it was this.proc (stopping).  promise[p] is the state *)
(* of the promise spawn() returned for it.                                 *)

\* this.proc?.stdin?.writable (daemon.ts:86)
Writable == proc # NoProc /\ procs[proc].alive /\ procs[proc].writable

\* RamblyDaemon.send, as the list of commands that reach stdin: the command
\* when the subordinate is writable; when it is not, send throws
Written(cmd) == IF Writable THEN <<cmd>> ELSE <<>>

\* a kill that arms its timer whether or not a subordinate is held
DaemonKillUnguarded ==
    /\ sent' = Written(<<"leave">>)
    /\ killTimers' = killTimers + 1
    /\ procs' = IF proc # NoProc
                THEN [procs EXCEPT ![proc].stopping = TRUE]
                ELSE procs

\* RamblyDaemon.kill (daemon.ts:92-105): a best-effort leave, then a timer
\* that terminates this.proc 500 ms later
DaemonKill ==
    IF proc # NoProc
    THEN /\ sent' = Written(<<"leave">>)
         /\ killTimers' = killTimers + 1
         /\ procs' = [procs EXCEPT ![proc].stopping = TRUE]
    ELSE /\ sent' = <<>>
         /\ killTimers' = killTimers
         /\ procs' = procs

---------------------------------------------------------------------------
(* RamblyManager: follow bookkeeping and cleanup *)

\* stopFollowLoop (manager.ts:345-350): the timer the field holds, if any,
\* is cleared
stopFollowLoop ==
    /\ followInterval' = FALSE
    /\ intervals' = IF followInterval THEN intervals - 1 ELSE intervals

\* a stopFollow that forgets the timer
stopFollowLeaky ==
    /\ followTarget' = NoName
    /\ followBreadcrumbs' = <<>>
    /\ UNCHANGED <<followInterval, intervals>>

\* stopFollow (manager.ts:352-356)
stopFollow ==
    /\ followTarget' = NoName
    /\ followBreadcrumbs' = <<>>
    /\ stopFollowLoop

\* a cleanup that leaves the follow alone
cleanupKeepingFollow ==
    /\ connected' = FALSE
    /\ room' = NoRoom
    /\ peerId' = NoId
    /\ peers' = <<>>
    /\ UNCHANGED <<agentName, position, pendingTranscripts, followTarget,
                   followBreadcrumbs, followInterval, intervals>>

\* cleanup (manager.ts:358-364)
cleanup ==
    /\ stopFollow
    /\ connected' = FALSE
    /\ room' = NoRoom
    /\ peerId' = NoId
    /\ peers' = <<>>
    /\ UNCHANGED <<agentName, position, pendingTranscripts>>

---------------------------------------------------------------------------
(* RamblyManager.handleEvent (manager.ts:39-109), one definition per case. *)
(* Each states the handler's effect on the manager's variables and on      *)
(* heard; the daemon's own bookkeeping is added by Line below.             *)

onJoined(r, id) ==
    /\ connected' = TRUE
    /\ room' = r
    /\ peerId' = id
    /\ heard' = <<>>
    /\ UNCHANGED <<agentName, position, peers, followTarget,
                   followBreadcrumbs, pendingTranscripts, followInterval, intervals>>

onPeerJoin(id, name, pos) ==
    /\ peers' = MapSet(peers, Peer(id, name, pos))
    /\ heard' = <<>>
    /\ UNCHANGED <<connected, room, peerId, agentName, position, followTarget,
                   followBreadcrumbs, pendingTranscripts, followInterval, intervals>>

\* a peer_moved handler that records a breadcrumb for whichever peer moved
onPeerMovedUnfiltered(id, pos) ==
    LET patched == IF MapHas(peers, id) /\ pos # NoPos
                   THEN [peers EXCEPT ![IndexOfId(peers, id)].position = pos]
                   ELSE peers
    IN  /\ peers' = patched
        /\ followBreadcrumbs' =
              IF pos # NoPos /\ MapHas(peers, id)
              THEN recordCrumb(followBreadcrumbs, pos)
              ELSE followBreadcrumbs
        /\ heard' = <<>>
        /\ UNCHANGED <<connected, room, peerId, agentName, position,
                       followTarget, pendingTranscripts, followInterval, intervals>>

onPeerMoved(id, pos) ==
    LET patched == IF MapHas(peers, id) /\ pos # NoPos
                   THEN [peers EXCEPT ![IndexOfId(peers, id)].position = pos]
                   ELSE peers
        target  == findPeerByName(patched, followTarget)
    IN  /\ peers' = patched
        /\ followBreadcrumbs' =
              IF /\ followTarget # NoName
                 /\ pos # NoPos
                 /\ target # 0
                 /\ patched[target].id = id
              THEN recordCrumb(followBreadcrumbs, pos)
              ELSE followBreadcrumbs
        /\ heard' = <<>>
        /\ UNCHANGED <<connected, room, peerId, agentName, position,
                       followTarget, pendingTranscripts, followInterval, intervals>>

onPeerLeave(id) ==
    LET rest == MapDelete(peers, id)
    IN  /\ peers' = rest
        /\ IF followTarget # NoName /\ findPeerByName(rest, followTarget) = 0
           THEN stopFollow
           ELSE UNCHANGED <<followTarget, followBreadcrumbs, followInterval, intervals>>
        /\ heard' = <<>>
        /\ UNCHANGED <<connected, room, peerId, agentName, position,
                       pendingTranscripts>>

onPeers(list) ==
    /\ peers' = MapFill(<<>>, list)
    /\ heard' = <<>>
    /\ UNCHANGED <<connected, room, peerId, agentName, position, followTarget,
                   followBreadcrumbs, pendingTranscripts, followInterval, intervals>>

onStatus(r, pos, list) ==
    /\ room' = r
    /\ position' = pos
    /\ peers' = MapFill(<<>>, list)
    /\ heard' = <<>>
    /\ UNCHANGED <<connected, peerId, agentName, followTarget,
                   followBreadcrumbs, pendingTranscripts, followInterval, intervals>>

onMoved(pos) ==
    /\ position' = pos
    /\ heard' = <<>>
    /\ UNCHANGED <<connected, room, peerId, agentName, peers, followTarget,
                   followBreadcrumbs, pendingTranscripts, followInterval, intervals>>

\* handleTranscript's two filters (manager.ts:111-124)
isOwnTranscript(name) == agentName # NoName /\ SameName(name, agentName)

\* a hearing gate that shuts at the boundary
tooFarAtBoundary(pos) ==
    pos # NoPos /\ DistSq(position, pos) >= hearingRadius * hearingRadius

tooFar(pos) == pos # NoPos /\ DistGt(position, pos, hearingRadius)

\* a buffer that drops the newest entry when it overflows
pushTranscriptKeepingOldest(buf, t) ==
    LET pushed == Append(buf, t)
    IN  IF Len(pushed) > MaxTranscripts
        THEN SubSeq(pushed, 1, MaxTranscripts)
        ELSE pushed

\* pendingTranscripts.push(...); if (length > 10) shift()  (manager.ts:127-135)
pushTranscript(buf, t) ==
    LET pushed == Append(buf, t)
    IN  IF Len(pushed) > MaxTranscripts THEN Tail(pushed) ELSE pushed

\* handleTranscript (manager.ts:111-138)
onTranscriptEvent(from, name, text, pos) ==
    /\ IF isOwnTranscript(name) \/ tooFar(pos)
       THEN /\ pendingTranscripts' = pendingTranscripts
            /\ heard' = <<>>
       ELSE /\ pendingTranscripts' =
                  pushTranscript(pendingTranscripts, [name |-> name, text |-> text])
            /\ heard' = IF onTranscript = 0
                        THEN <<>>
                        ELSE <<[handler |-> onTranscript, from |-> from,
                                name |-> name, text |-> text,
                                distance |-> IF pos = NoPos THEN 0
                                             ELSE RoundSqrt(DistSq(position, pos))]>>
    /\ UNCHANGED <<connected, room, peerId, agentName, position, peers,
                   followTarget, followBreadcrumbs, followInterval, intervals>>

onLeft ==
    /\ cleanup
    /\ heard' = <<>>

---------------------------------------------------------------------------
(* The line handler of daemon.ts:34-55: a line of subordinate p's stdout   *)
(* is parsed, emitted to the manager (handleEvent), and then the daemon    *)
(* updates _ready and settles the spawn promise.  A subordinate emits      *)
(* `joined` once, room events while it is in the room, and `left` once.    *)

SelfIdOf(p) == <<"s1", "s2", "s3", "s4">>[p]

Emitting(p) == p \in DOMAIN procs /\ procs[p].alive /\ procs[p].phase = "joined"

LineJoined(p) ==
    /\ p \in DOMAIN procs /\ procs[p].alive /\ procs[p].phase = "starting"
    /\ onJoined(procs[p].room, SelfIdOf(p))
    /\ ready' = TRUE
    /\ promise' = [promise EXCEPT ![p] = IF @ = "pending" THEN "resolved" ELSE @]
    /\ procs' = [procs EXCEPT ![p].phase = "joined"]
    /\ Did(<<"joined", p>>) /\ sent' = <<>> /\ ret' = <<"none">>
    /\ UNCHANGED <<proc, spawnTimers, killTimers, statusWaiting, onTranscript>>

\* the daemon's part of every line that is neither `joined` nor `left`
LineOther(p, label) ==
    /\ Emitting(p)
    /\ Did(label) /\ sent' = <<>> /\ ret' = <<"none">>
    /\ UNCHANGED <<dvars, statusWaiting, onTranscript>>

LinePeerJoin(p, id, name, pos) ==
    /\ LineOther(p, <<"peer_join", p, id, name, pos>>)
    /\ onPeerJoin(id, name, pos)

LinePeerMoved(p, id, pos) ==
    /\ LineOther(p, <<"peer_moved", p, id, pos>>)
    /\ onPeerMoved(id, pos)

LinePeerLeave(p, id) ==
    /\ LineOther(p, <<"peer_leave", p, id>>)
    /\ onPeerLeave(id)

LinePeers(p, list) ==
    /\ LineOther(p, <<"peers", p, list>>)
    /\ onPeers(list)

LineStatus(p, pos, list) ==
    /\ LineOther(p, <<"status", p, pos, list>>)
    /\ onStatus(procs[p].room, pos, list)

LineMoved(p, pos) ==
    /\ LineOther(p, <<"moved", p, pos>>)
    /\ onMoved(pos)

LineTranscript(p, from, name, text, pos) ==
    /\ LineOther(p, <<"transcript", p, name, text, pos>>)
    /\ onTranscriptEvent(from, name, text, pos)

LineLeft(p) ==
    /\ Emitting(p)
    /\ onLeft
    /\ ready' = FALSE
    /\ procs' = [procs EXCEPT ![p].phase = "left"]
    /\ Did(<<"left", p>>) /\ sent' = <<>> /\ ret' = <<"none">>
    /\ UNCHANGED <<proc, promise, spawnTimers, killTimers, statusWaiting,
                   onTranscript>>

\* a line handler that fails the pending start on a line it cannot parse
LineGarbageRejects(p) ==
    /\ p \in DOMAIN procs /\ procs[p].alive
    /\ promise' = [promise EXCEPT ![p] = IF @ = "pending" THEN "rejected" ELSE @]
    /\ Did(<<"garbage", p>>) /\ sent' = <<>> /\ ret' = <<"none">> /\ heard' = <<>>
    /\ UNCHANGED <<mvars, followInterval, intervals, proc, ready, procs,
                   spawnTimers, killTimers, statusWaiting, onTranscript>>

\* a line that is blank or that JSON.parse rejects (daemon.ts:35-37,
\* 52-54): the handler returns, or the exception is caught, before anything
\* is emitted or assigned
LineGarbage(p) ==
    /\ p \in DOMAIN procs /\ procs[p].alive
    /\ Did(<<"garbage", p>>) /\ sent' = <<>> /\ ret' = <<"none">> /\ heard' = <<>>
    /\ UNCHANGED <<mvars, followInterval, intervals, dvars, statusWaiting,
                   onTranscript>>

\* proc.on("exit") (daemon.ts:69-73): subordinate p has terminated
ProcExit(p) ==
    /\ p \in DOMAIN procs /\ procs[p].alive
    /\ procs' = [procs EXCEPT ![p].alive = FALSE]
    /\ ready' = FALSE
    /\ proc' = NoProc
    /\ Did(<<"exit", p>>) /\ sent' = <<>> /\ ret' = <<"none">> /\ heard' = <<>>
    /\ UNCHANGED <<mvars, followInterval, intervals, promise, spawnTimers, killTimers,
                   statusWaiting, onTranscript>>

\* proc.on("error") (daemon.ts:63-67): subordinate p could not be launched
SpawnError(p) ==
    /\ p \in DOMAIN procs /\ procs[p].alive /\ procs[p].phase = "starting"
    /\ procs' = [procs EXCEPT ![p].alive = FALSE]
    /\ ready' = FALSE
    /\ proc' = NoProc
    /\ promise' = [promise EXCEPT ![p] = IF @ = "pending" THEN "rejected" ELSE @]
    /\ Did(<<"error", p>>) /\ sent' = <<>> /\ ret' = <<"none">> /\ heard' = <<>>
    /\ UNCHANGED <<mvars, followInterval, intervals, spawnTimers, killTimers,
                   statusWaiting, onTranscript>>

\* subordinate p's stdin stops accepting writes while p is still running
StdinClose(p) ==
    /\ p \in DOMAIN procs /\ procs[p].alive /\ procs[p].writable
    /\ procs' = [procs EXCEPT ![p].writable = FALSE]
    /\ Did(<<"stdin_close", p>>) /\ sent' = <<>> /\ ret' = <<"none">> /\ heard' = <<>>
    /\ UNCHANGED <<mvars, followInterval, intervals, proc, ready, promise, spawnTimers,
                   killTimers, statusWaiting, onTranscript>>

\* the 15 s timer of spawn() (daemon.ts:76-81)
SpawnTimeout(p) ==
    /\ p \in spawnTimers
    /\ spawnTimers' = spawnTimers \ {p}
    /\ IF ~ ready
       THEN /\ promise' = [promise EXCEPT ![p] = IF @ = "pending" THEN "rejected" ELSE @]
            /\ DaemonKill
       ELSE /\ sent' = <<>>
            /\ UNCHANGED <<promise, killTimers, procs>>
    /\ Did(<<"spawn_timeout", p>>) /\ ret' = <<"none">> /\ heard' = <<>>
    /\ UNCHANGED <<mvars, followInterval, intervals, proc, ready, statusWaiting,
                   onTranscript>>

\* the 500 ms timer of kill() (daemon.ts:99-103): SIGTERM goes to the
\* process this.proc holds when the timer fires (named in the step's label,
\* NoProc when there is none); the process reports its exit later (ProcExit)
KillTimer ==
    /\ killTimers > 0
    /\ killTimers' = killTimers - 1
    /\ proc' = NoProc
    /\ ready' = FALSE
    /\ Did(<<"kill_timer", proc>>) /\ sent' = <<>> /\ ret' = <<"none">> /\ heard' = <<>>
    /\ UNCHANGED <<mvars, followInterval, intervals, procs, promise, spawnTimers,
                   statusWaiting, onTranscript>>

---------------------------------------------------------------------------
(* RamblyManager's public API (manager.ts:153-282).  An async method that  *)
(* awaits is two steps: the call up to the await, and its resumption.      *)

NewProc(r, name) ==
    [room |-> r, name |-> name, phase |-> "starting", alive |-> TRUE,
     writable |-> TRUE, stopping |-> FALSE]

\* a join that only recognises the room it is in
joinRefusalSameRoomOnly(r) ==
    IF connected /\ room = r THEN <<"AlreadyInRoom">> ELSE <<"none">>

\* join's two early returns (manager.ts:155-160)
joinRefusal(r) ==
    IF connected /\ room = r THEN <<"AlreadyInRoom">>
    ELSE IF connected THEN <<"AlreadyConnected">>
    ELSE <<"none">>

\* join (manager.ts:153-169) up to `await this.daemon.spawn(...)`, with
\* RamblyDaemon.spawn (daemon.ts:14-31, 76-81) up to the promise it returns
\* in a run that launches at most cap subordinates
JoinCapped(cap, r, n) ==
    /\ Did(<<"join", r, n>>) /\ sent' = <<>> /\ heard' = <<>>
    /\ IF joinRefusal(r) # <<"none">>
       THEN /\ ret' = joinRefusal(r)
            /\ UNCHANGED <<mvars, dvars>>
       ELSE /\ agentName' = (IF n # NoName THEN n ELSE defaultName)
            /\ UNCHANGED <<connected, room, peerId, position, peers,
                           followTarget, followBreadcrumbs, pendingTranscripts>>
            /\ IF proc # NoProc
               THEN \* spawn throws "Daemon already running"; join catches it
                    /\ ret' = <<"FailedToJoin">>
                    /\ UNCHANGED dvars
               ELSE /\ Len(procs) < cap
                    /\ procs' = Append(procs, NewProc(r, agentName'))
                    /\ proc' = Len(procs) + 1
                    /\ promise' = Append(promise, "pending")
                    /\ spawnTimers' = spawnTimers \cup {Len(procs) + 1}
                    /\ ret' = <<"pending">>
                    /\ UNCHANGED <<ready, killTimers>>
    /\ UNCHANGED <<followInterval, intervals, statusWaiting, onTranscript>>

\* join, in a run that launches at most MaxProcs subordinates
Join(r, n) == JoinCapped(MaxProcs, r, n)

\* join resumed after the await (manager.ts:170-175)
JoinResume(p) ==
    /\ p \in DOMAIN promise /\ promise[p] \in {"resolved", "rejected"}
    /\ promise' = [promise EXCEPT ![p] = "done"]
    /\ IF promise[p] = "resolved"
       THEN /\ sent' = Written(<<"peers">>)
            /\ ret' = IF Writable THEN <<"Joined">> ELSE <<"FailedToJoin">>
       ELSE /\ sent' = <<>>
            /\ ret' = <<"FailedToJoin">>
    /\ Did(<<"join_resume", p>>) /\ heard' = <<>>
    /\ UNCHANGED <<mvars, followInterval, intervals, proc, ready, procs, spawnTimers,
                   killTimers, statusWaiting, onTranscript>>

\* leave (manager.ts:178-186)
Leave ==
    /\ Did(<<"leave">>) /\ heard' = <<>>
    /\ IF ~ connected
       THEN /\ ret' = <<"NotConnected">>
            /\ sent' = <<>>
            /\ UNCHANGED <<mvars, followInterval, intervals, killTimers, procs>>
       ELSE /\ DaemonKill
            /\ cleanup
            /\ ret' = <<"Left">>
    /\ UNCHANGED <<proc, ready, promise, spawnTimers, statusWaiting,
                   onTranscript>>

\* speak (manager.ts:188-194)
Speak(text) ==
    /\ Did(<<"speak", text>>) /\ heard' = <<>>
    /\ IF ~ connected
       THEN ret' = <<"NotConnected">> /\ sent' = <<>>
       ELSE /\ sent' = Written(<<"speak", text>>)
            /\ ret' = IF Writable THEN <<"Speaking">> ELSE <<"Throws">>
    /\ UNCHANGED <<mvars, followInterval, intervals, dvars, statusWaiting, onTranscript>>

\* a move that does not look at the connection
MoveUnchecked(pos) ==
    /\ Did(<<"move", pos>>) /\ heard' = <<>>
    /\ sent' = Written(<<"move", pos, "abs">>)
    /\ ret' = IF Writable THEN <<"Moved">> ELSE <<"Throws">>
    /\ position' = IF Writable THEN pos ELSE position
    /\ UNCHANGED <<connected, room, peerId, agentName, peers, followTarget,
                   followBreadcrumbs, pendingTranscripts, followInterval, intervals,
                   dvars, statusWaiting, onTranscript>>

\* move (manager.ts:196-203)
Move(pos) ==
    /\ Did(<<"move", pos>>) /\ heard' = <<>>
    /\ IF ~ connected
       THEN /\ ret' = <<"NotConnected">> /\ sent' = <<>>
            /\ position' = position
       ELSE /\ sent' = Written(<<"move", pos, "abs">>)
            /\ ret' = IF Writable THEN <<"Moved">> ELSE <<"Throws">>
            /\ position' = IF Writable THEN pos ELSE position
    /\ UNCHANGED <<connected, room, peerId, agentName, peers, followTarget,
                   followBreadcrumbs, pendingTranscripts, followInterval, intervals,
                   dvars, statusWaiting, onTranscript>>

\* a startFollowLoop that arms a timer without clearing the one it holds
startFollowLoopStacking ==
    /\ followInterval' = TRUE
    /\ intervals' = intervals + 1

\* startFollowLoop (manager.ts:286-289, 342): stopFollowLoop(), then
\* this.followInterval = setInterval(...)
startFollowLoop ==
    /\ followInterval' = TRUE
    /\ intervals' = (IF followInterval THEN intervals - 1 ELSE intervals) + 1

\* follow (manager.ts:205-224)
Follow(name) ==
    /\ Did(<<"follow", name>>) /\ heard' = <<>> /\ sent' = <<>>
    /\ IF ~ connected
       THEN /\ ret' = <<"NotConnected">>
            /\ UNCHANGED <<followTarget, followBreadcrumbs, followInterval, intervals>>
       ELSE IF findPeerByName(peers, name) = 0
       THEN /\ ret' = <<"PeerNotFound">>
            /\ UNCHANGED <<followTarget, followBreadcrumbs, followInterval, intervals>>
       ELSE LET peer == peers[findPeerByName(peers, name)]
            IN  /\ followTarget' = name
                /\ followBreadcrumbs' =
                      IF peer.position # NoPos THEN <<peer.position>> ELSE <<>>
                /\ startFollowLoop
                /\ ret' = <<"NowFollowing">>
    /\ UNCHANGED <<connected, room, peerId, agentName, position, peers,
                   pendingTranscripts, dvars, statusWaiting, onTranscript>>

\* unfollow (manager.ts:226-233)
Unfollow ==
    /\ Did(<<"unfollow">>) /\ heard' = <<>> /\ sent' = <<>>
    /\ IF followTarget = NoName
       THEN /\ ret' = <<"NotFollowing">>
            /\ UNCHANGED <<followTarget, followBreadcrumbs, followInterval, intervals>>
       ELSE /\ stopFollow
            /\ ret' = <<"StoppedFollowing">>
    /\ UNCHANGED <<connected, room, peerId, agentName, position, peers,
                   pendingTranscripts, dvars, statusWaiting, onTranscript>>

\* status (manager.ts:235-243) up to its 300 ms wait
Status ==
    /\ statusWaiting < MaxWaiting
    /\ Did(<<"status">>) /\ heard' = <<>>
    /\ IF ~ connected
       THEN /\ ret' = <<"NotConnected">> /\ sent' = <<>>
            /\ UNCHANGED statusWaiting
       ELSE /\ sent' = Written(<<"status">>)
            /\ ret' = IF Writable THEN <<"pending">> ELSE <<"Throws">>
            /\ statusWaiting' = IF Writable THEN statusWaiting + 1 ELSE statusWaiting
    /\ UNCHANGED <<mvars, followInterval, intervals, dvars, onTranscript>>

\* status resumed (manager.ts:245-273): the report is rendered from the
\* state as it is now
StatusResume ==
    /\ statusWaiting > 0
    /\ statusWaiting' = statusWaiting - 1
    /\ ret' = <<"Report", room, position, followTarget, Len(peers),
                Len(pendingTranscripts)>>
    /\ Did(<<"status_resume">>) /\ heard' = <<>> /\ sent' = <<>>
    /\ UNCHANGED <<mvars, followInterval, intervals, dvars, onTranscript>>

\* a registration that keeps a handler already registered
SetTranscriptHandlerOnce(h) ==
    /\ onTranscript' = IF onTranscript = 0 THEN h ELSE onTranscript
    /\ Did(<<"set_handler", h>>) /\ heard' = <<>> /\ sent' = <<>>
    /\ ret' = <<"none">>
    /\ UNCHANGED <<mvars, followInterval, intervals, dvars, statusWaiting>>

\* setTranscriptHandler (manager.ts:35-37)
SetTranscriptHandler(h) ==
    /\ onTranscript' = h
    /\ Did(<<"set_handler", h>>) /\ heard' = <<>> /\ sent' = <<>>
    /\ ret' = <<"none">>
    /\ UNCHANGED <<mvars, followInterval, intervals, dvars, statusWaiting>>

\* clearTranscripts (manager.ts:276-278)
ClearTranscripts ==
    /\ pendingTranscripts' = <<>>
    /\ Did(<<"clear_transcripts">>) /\ heard' = <<>> /\ sent' = <<>>
    /\ ret' = <<"none">>
    /\ UNCHANGED <<connected, room, peerId, agentName, position, peers,
                   followTarget, followBreadcrumbs, followInterval, intervals, dvars,
                   statusWaiting, onTranscript>>

---------------------------------------------------------------------------
(* The follow stepper: the callback of the interval timer                  *)
(* (manager.ts:289-342).  A tick whose send throws stops where it threw.   *)

Tick ==
    /\ intervals > 0
    /\ Did(<<"tick">>) /\ heard' = <<>>
    /\ IF followTarget = NoName \/ ~ connected
       THEN /\ stopFollowLoop
            /\ sent' = <<>> /\ ret' = <<"none">>
            /\ UNCHANGED <<followBreadcrumbs, position>>
       ELSE
       LET t == findPeerByName(peers, followTarget)
       IN  IF t = 0 \/ (t # 0 /\ peers[t].position = NoPos)
           THEN /\ sent' = <<>> /\ ret' = <<"none">>
                /\ UNCHANGED <<followBreadcrumbs, position, followInterval, intervals>>
           ELSE
           LET tpos     == peers[t].position
               recorded == recordCrumb(followBreadcrumbs, tpos)
               popped   == popReached(recorded, position)
               next     == stepToward(position, popped[1])
           IN  IF DistLe(position, tpos, followDistance)
               THEN /\ followBreadcrumbs' = recorded
                    /\ sent' = Written(<<"move", position, "step0">>)
                    /\ ret' = IF Writable THEN <<"none">> ELSE <<"Throws">>
                    /\ UNCHANGED <<position, followInterval, intervals>>
               ELSE IF popped[1] = position
               THEN \* stepDist < 1: nothing to do this tick
                    /\ followBreadcrumbs' = popped
                    /\ sent' = <<>> /\ ret' = <<"none">>
                    /\ UNCHANGED <<position, followInterval, intervals>>
               ELSE /\ followBreadcrumbs' = popped
                    /\ sent' = Written(<<"move", next, "step1">>)
                    /\ ret' = IF Writable THEN <<"none">> ELSE <<"Throws">>
                    /\ position' = IF Writable THEN next ELSE position
                    /\ UNCHANGED <<followInterval, intervals>>
    /\ UNCHANGED <<connected, room, peerId, agentName, peers, followTarget,
                   pendingTranscripts, dvars, statusWaiting, onTranscript>>

---------------------------------------------------------------------------
(* The initial state: the constructor (manager.ts:17-33) and the field     *)
(* initializers of both classes                                            *)

Init ==
    /\ connected = FALSE
    /\ room = NoRoom
    /\ peerId = NoId
    /\ agentName = NoName
    /\ position = InitPos
    /\ peers = <<>>
    /\ followTarget = NoName
    /\ followBreadcrumbs = <<>>
    /\ pendingTranscripts = <<>>
    /\ followInterval = FALSE
    /\ intervals = 0
    /\ onTranscript = 0
    /\ proc = NoProc
    /\ ready = FALSE
    /\ procs = <<>>
    /\ promise = <<>>
    /\ spawnTimers = {}
    /\ killTimers = 0
    /\ statusWaiting = 0
    /\ last = <<"init">>
    /\ was = [followTarget |-> NoName, followBreadcrumbs |-> <<>>]
    /\ sent = <<>>
    /\ ret = <<"none">>
    /\ heard = <<>>

---------------------------------------------------------------------------
(* Inputs *)

Rooms == {"forest", "cave"}

Agent == defaultName
David == <<"D", "a", "v">>
david == <<"d", "a", "v">>
Bob   == <<"B", "o", "b">>
agent == <<"a", "g">>

PeerIds == {"p1", "p2"}

\* the scenario positions of the documentation and the hearing boundary:
\* Near is 150 away from the initial position, Far 151
DavidPos == <<300, 300>>
Near     == <<400, 230>>
Far      == <<401, 230>>
\* positions on the line y = InitY, so that a walk between them stays on a
\* grid of few points: East is 100 from the initial position, Portal 220
\* beyond East, Aside 40 from the initial position
East     == <<350, 230>>
Portal   == <<570, 230>>
Aside    == <<290, 230>>
\* 6 from East: just over the breadcrumb spacing
East2    == <<356, 230>>
\* 5 from East: exactly the breadcrumb spacing
East5    == <<355, 230>>

---------------------------------------------------------------------------
(* The engine with every operation and every event, on small inputs *)

\* a peer_moved event, delivered while the trail is short
TrailPeerMoved(p, id, pos) ==
    /\ Len(followBreadcrumbs) < MaxTrail
    /\ LinePeerMoved(p, id, pos)

\* a transcript event, delivered while the buffer is short
HeardTranscript(p, from, name, text, pos) ==
    /\ Len(pendingTranscripts) < MaxHeard
    /\ LineTranscript(p, from, name, text, pos)

Next ==
    \/ \E r \in Rooms, n \in {NoName, David} : Join(r, n)
    \/ \E p \in 1..MaxProcs : JoinResume(p)
    \/ Leave
    \/ Speak("hi")
    \/ \E pos \in {Near} : Move(pos)
    \/ \E n \in {david, Bob} : Follow(n)
    \/ Unfollow
    \/ Status
    \/ StatusResume
    \/ SetTranscriptHandler(1)
    \/ ClearTranscripts
    \/ Tick
    \/ \E p \in 1..MaxProcs : LineJoined(p)
    \/ \E p \in 1..MaxProcs, id \in PeerIds, n \in {David, Bob},
          pos \in {NoPos, DavidPos} : LinePeerJoin(p, id, n, pos)
    \/ \E p \in 1..MaxProcs, id \in PeerIds, pos \in {NoPos, DavidPos, Far} :
          TrailPeerMoved(p, id, pos)
    \/ \E p \in 1..MaxProcs, id \in PeerIds : LinePeerLeave(p, id)
    \/ \E p \in 1..MaxProcs,
          list \in {<<>>, <<Peer("p1", David, DavidPos)>>} : LinePeers(p, list)
    \/ \E p \in 1..MaxProcs,
          list \in {<<>>, <<Peer("p1", David, DavidPos)>>} :
          LineStatus(p, Near, list)
    \/ \E p \in 1..MaxProcs : LineMoved(p, InitPos)
    \/ \E p \in 1..MaxProcs, n \in {David, Agent}, pos \in {NoPos, Near, Far} :
          HeardTranscript(p, "p1", n, "hi", pos)
    \/ \E p \in 1..MaxProcs : LineLeft(p)
    \/ \E p \in 1..MaxProcs : LineGarbage(p)
    \/ \E p \in 1..MaxProcs : ProcExit(p)
    \/ \E p \in 1..MaxProcs : SpawnError(p)
    \/ \E p \in 1..MaxProcs : StdinClose(p)
    \/ \E p \in 1..MaxProcs : SpawnTimeout(p)
    \/ KillTimer

Spec == Init /\ [][Next]_vars

---------------------------------------------------------------------------
(* Follow mode: the engine restricted to the operations and events that    *)
(* read or write the follow state, the roster, the own position and the    *)
(* connection.                                                             *)

NextFollow ==
    \/ Join("forest", NoName)
    \/ \E p \in 1..MaxProcs : JoinResume(p)
    \/ Leave
    \/ Move(Aside)
    \/ \E n \in {david, Bob} : Follow(n)
    \/ Unfollow
    \/ Tick
    \/ \E p \in 1..MaxProcs : LineJoined(p)
    \/ \E p \in 1..MaxProcs, pos \in {NoPos, East} :
          LinePeerJoin(p, "p1", David, pos)
    \/ \E p \in 1..MaxProcs, pos \in {NoPos, East, Portal} :
          TrailPeerMoved(p, "p1", pos)
    \/ \E p \in 1..MaxProcs : LinePeerLeave(p, "p1")
    \/ \E p \in 1..MaxProcs : LineLeft(p)
    \/ \E p \in 1..MaxProcs : ProcExit(p)
    \/ KillTimer

SpecFollow == Init /\ [][NextFollow]_vars

(* C1: after unfollow() returns, the stepper emits no move command until a
   later follow() succeeds.  The stepper's timer is disarmed whenever
   unfollow returns, whatever it returns; a disarmed timer is armed again
   only by a follow() that returns NowFollowing; and a step in which the
   stepper writes a move starts with the timer armed. *)
C1_QuietAfterUnfollow ==
    [][ /\ (last' = <<"unfollow">> => ~ followInterval')
        /\ (~ followInterval /\ followInterval' =>
               last'[1] = "follow" /\ ret' = <<"NowFollowing">>)
        /\ (last' = <<"tick">> /\ sent' # <<>> => followInterval) ]_vars

\* unfollow() has just stopped a follow whose stepper had walked
C1_Witness ==
    /\ last = <<"unfollow">>
    /\ ret = <<"StoppedFollowing">>
    /\ position \notin {InitPos, Aside}
    /\ ~ followInterval

\* the documented teleport threshold (SKILL.md, 5.5)
TeleportJump == 200

(* C3: an explicit move(x, y) handled while a follow is active ends follow
   mode: afterwards followTarget is null and the stepper is stopped. *)
C3_MoveEndsFollow ==
    (last[1] = "move" /\ ret = <<"Moved">>) =>
        (followTarget = NoName /\ ~ followInterval)

(* C8: when the followed target's observed position jumps by more than 200
   units between two consecutive observations, the trail afterwards is
   exactly the new position. *)
C8_TeleportReseeds ==
    [][ LET t == findPeerByName(peers, followTarget)
        IN  ( /\ last'[1] = "peer_moved"
              /\ followTarget # NoName
              /\ t # 0
              /\ peers[t].id = last'[3]
              /\ peers[t].position # NoPos
              /\ last'[4] # NoPos
              /\ DistGt(peers[t].position, last'[4], TeleportJump) )
            => followBreadcrumbs' = <<last'[4]>> ]_vars

(* C11: follow(name) called while connected.  When no peer's name equals
   name, case ignored, it returns PeerNotFound and changes nothing: a
   follow already active keeps its target, its trail and its timer.
   Otherwise followTarget becomes name, the trail becomes the last known
   position of a peer of that name, or empty when that is unknown, and
   exactly one stepper timer is armed. *)
C11_Follow ==
    [][ (last'[1] = "follow" /\ connected)
        => IF \A i \in DOMAIN peers : ~ SameName(peers[i].name, last'[2])
           THEN /\ ret' = <<"PeerNotFound">>
                /\ UNCHANGED <<mvars, followInterval, intervals>>
           ELSE /\ ret' = <<"NowFollowing">>
                /\ followTarget' = last'[2]
                /\ \E i \in DOMAIN peers :
                      /\ SameName(peers[i].name, last'[2])
                      /\ followBreadcrumbs' =
                            IF peers[i].position = NoPos
                            THEN <<>>
                            ELSE <<peers[i].position>>
                /\ followInterval'
                /\ intervals' = 1 ]_vars

\* follow has just succeeded over a follow that was active with a trail of
\* two points, and left the target's position as the whole trail
C11_Witness ==
    /\ last[1] = "follow"
    /\ ret = <<"NowFollowing">>
    /\ Len(was.followBreadcrumbs) = 2
    /\ followBreadcrumbs = <<Portal>>
    /\ followInterval
    /\ intervals = 1

(* C17: at most one stepper timer is armed, the one the followInterval
   field holds, and it is armed only while followTarget is set and the
   engine is connected; so every step that leaves following (unfollow,
   the target's departure, leave, a `left` event) leaves no timer armed. *)
C17_OneTimer ==
    /\ intervals <= 1
    /\ followInterval <=> (intervals = 1)
    /\ intervals = 1 => (followTarget # NoName /\ connected)

\* a `left` event has just ended a follow and disarmed its timer
C17_Witness ==
    /\ last[1] = "left"
    /\ was.followTarget # NoName
    /\ followTarget = NoName
    /\ ~ connected
    /\ intervals = 0

---------------------------------------------------------------------------
(* The roster: two peers whose names may differ only in case, joining,     *)
(* leaving and being replaced while one of them is followed.               *)

NextRoster ==
    \/ Join("forest", NoName)
    \/ \E p \in 1..MaxProcs : JoinResume(p)
    \/ Leave
    \/ \E n \in {david, Bob} : Follow(n)
    \/ Unfollow
    \/ Tick
    \/ \E p \in 1..MaxProcs : LineJoined(p)
    \/ \E p \in 1..MaxProcs, pos \in {NoPos, East} :
          LinePeerJoin(p, "p1", David, pos)
    \/ \E p \in 1..MaxProcs, n \in {david, Bob} :
          LinePeerJoin(p, "p2", n, NoPos)
    \/ \E p \in 1..MaxProcs, id \in PeerIds : LinePeerLeave(p, id)
    \/ \E p \in 1..MaxProcs, list \in {<<>>, <<Peer("p2", david, East)>>} :
          LinePeers(p, list)
    \/ \E p \in 1..MaxProcs : LineLeft(p)
    \/ \E p \in 1..MaxProcs : ProcExit(p)
    \/ KillTimer

SpecRoster == Init /\ [][NextRoster]_vars

\* some peer of roster ps bears name `name`, case ignored
Named(ps, name) == \E i \in DOMAIN ps : SameName(ps[i].name, name)

(* C4: when a peer_leave event removes the followed peer and no peer with
   the same name, case ignored, remains in the roster, follow state is
   cleared in that step (no target, empty trail, stepper stopped); when a
   same-named peer remains, follow stays active. *)
C4_AutoUnfollow ==
    [][ LET t == findPeerByName(peers, followTarget)
        IN  ( /\ last'[1] = "peer_leave"
              /\ followTarget # NoName
              /\ t # 0
              /\ peers[t].id = last'[3] )
            => IF Named(peers', followTarget)
               THEN followTarget' = followTarget /\ followInterval'
               ELSE /\ followTarget' = NoName
                    /\ followBreadcrumbs' = <<>>
                    /\ ~ followInterval' ]_vars

\* the followed peer has just left, another peer with another name stays,
\* and the follow was cleared
C4_Witness ==
    /\ last[1] = "peer_leave"
    /\ was.followTarget # NoName
    /\ peers # <<>>
    /\ ~ Named(peers, was.followTarget)
    /\ followTarget = NoName
    /\ followBreadcrumbs = <<>>
    /\ ~ followInterval

---------------------------------------------------------------------------
(* A long walk: one followed peer that keeps moving between two points     *)
(* more than the breadcrumb spacing apart, as often as it likes, while     *)
(* the stepper ticks.                                                      *)

NextTrail ==
    \/ Join("forest", NoName)
    \/ \E p \in 1..MaxProcs : JoinResume(p)
    \/ \E p \in 1..MaxProcs : LineJoined(p)
    \/ \E p \in 1..MaxProcs : LinePeerJoin(p, "p1", David, East)
    \/ \E p \in 1..MaxProcs, pos \in {East, East2} : LinePeerMoved(p, "p1", pos)
    \/ Follow(david)
    \/ Tick

SpecTrail == Init /\ [][NextTrail]_vars

\* sequence a is the end of sequence b
IsSuffix(a, b) ==
    /\ Len(a) <= Len(b)
    /\ \A i \in 1..Len(a) : a[i] = b[Len(b) - Len(a) + i]

(* C2: the trail never holds more than 100 positions, whatever peer_moved
   events, ticks and follow calls happen; a point appended to a full trail
   displaces the oldest one: after a peer_moved event the trail is the old
   one without its first point plus the new point, and after a tick, which
   may also discard waypoints it has reached, an end of that. *)
C2_TrailCapped ==
    [][ /\ Len(followBreadcrumbs') <= MaxCrumbs
        /\ ( /\ Len(followBreadcrumbs) = MaxCrumbs
             /\ last'[1] = "peer_moved"
             /\ followBreadcrumbs' # followBreadcrumbs )
           => followBreadcrumbs' = Append(Tail(followBreadcrumbs), last'[4])
        /\ ( /\ Len(followBreadcrumbs) = MaxCrumbs
             /\ last' = <<"tick">>
             /\ ~ IsSuffix(followBreadcrumbs', followBreadcrumbs) )
           => IsSuffix(followBreadcrumbs',
                       Append(Tail(followBreadcrumbs),
                              followBreadcrumbs'[Len(followBreadcrumbs')])) ]_vars

\* a peer_moved event has just appended a point to a trail of 100
C2_Witness ==
    /\ last[1] = "peer_moved"
    /\ Len(was.followBreadcrumbs) = MaxCrumbs
    /\ followBreadcrumbs = Append(Tail(was.followBreadcrumbs), last[4])

---------------------------------------------------------------------------
(* Hearing: transcripts from speakers at, inside and outside the hearing   *)
(* radius, or without a position, under the names of the engine and of     *)
(* others, while the engine joins, moves and leaves.                       *)

NextHear ==
    \/ \E n \in {NoName, David} : Join("forest", n)
    \/ \E p \in 1..MaxProcs : JoinResume(p)
    \/ Leave
    \/ Move(Aside)
    \/ SetTranscriptHandler(1)
    \/ ClearTranscripts
    \/ \E p \in 1..MaxProcs : LineJoined(p)
    \/ \E p \in 1..MaxProcs, n \in {agent, Bob}, pos \in {NoPos, Near, Far} :
          HeardTranscript(p, "p1", n, "hi", pos)
    \/ \E p \in 1..MaxProcs : LineMoved(p, InitPos)
    \/ \E p \in 1..MaxProcs : LineLeft(p)
    \/ \E p \in 1..MaxProcs : ProcExit(p)
    \/ KillTimer

SpecHear == Init /\ [][NextHear]_vars

(* C5: a transcript whose speaker name equals, case ignored, the display
   name under which the subordinate that reports it joined is neither
   appended to the transcript buffer nor forwarded to the handler. *)
C5_OwnVoiceDropped ==
    [][ ( /\ last'[1] = "transcript"
          /\ SameName(last'[3], procs[last'[2]].name) )
        => /\ pendingTranscripts' = pendingTranscripts
           /\ heard' = <<>> ]_vars

\* the transcript of the step just taken is the last entry of the buffer,
\* which grew by one or was full
Buffered ==
    /\ pendingTranscripts' # <<>>
    /\ pendingTranscripts'[Len(pendingTranscripts')] =
          [name |-> last'[3], text |-> last'[4]]
    /\ \/ pendingTranscripts' = Append(pendingTranscripts,
                                       [name |-> last'[3], text |-> last'[4]])
       \/ /\ Len(pendingTranscripts) = MaxTranscripts
          /\ Len(pendingTranscripts') = MaxTranscripts

\* the registered handler was invoked once with the transcript of the step
\* just taken
Forwarded ==
    /\ Len(heard') = 1
    /\ heard'[1].handler = onTranscript
    /\ heard'[1].name = last'[3]
    /\ heard'[1].text = last'[4]

(* C6: a transcript from a speaker other than the engine is accepted -
   buffered and, when a handler is registered, forwarded to it - if and
   only if it carries no position or the speaker is at most hearingRadius
   from the own position; at exactly hearingRadius it is accepted, beyond
   it nothing changes. *)
C6_HearingGate ==
    [][ ( /\ last'[1] = "transcript"
          /\ ~ (agentName # NoName /\ SameName(last'[3], agentName)) )
        => IF \/ last'[5] = NoPos
              \/ DistSq(position, last'[5]) <= hearingRadius * hearingRadius
           THEN /\ Buffered
                /\ onTranscript # 0 => Forwarded
           ELSE /\ UNCHANGED mvars
                /\ heard' = <<>> ]_vars

\* a speaker exactly hearingRadius away has just been heard
C6_Witness ==
    /\ last[1] = "transcript"
    /\ last[5] = Near
    /\ position = InitPos
    /\ DistSq(position, Near) = hearingRadius * hearingRadius
    /\ pendingTranscripts # <<>>
    /\ Len(heard) = 1
    /\ heard[1].distance = hearingRadius

---------------------------------------------------------------------------
(* The connection: the command surface called in every connection state,   *)
(* with the subordinate joining, reporting a peer, leaving and exiting,    *)
(* and the daemon's kill timer firing.                                     *)

NextConn ==
    \/ \E r \in Rooms, n \in {NoName, David} : Join(r, n)
    \/ \E p \in 1..MaxProcs : JoinResume(p)
    \/ Leave
    \/ Speak("hi")
    \/ Move(Aside)
    \/ Follow(david)
    \/ Status
    \/ StatusResume
    \/ Tick
    \/ \E p \in 1..MaxProcs : LineJoined(p)
    \/ \E p \in 1..MaxProcs : LinePeerJoin(p, "p1", David, NoPos)
    \/ \E p \in 1..MaxProcs : LineLeft(p)
    \/ \E p \in 1..MaxProcs : ProcExit(p)
    \/ KillTimer

SpecConn == Init /\ [][NextConn]_vars

(* C7: join(room) called while connected launches no subordinate and
   changes nothing; it returns success when room is the current room and
   AlreadyConnected when it is another. *)
C7_JoinWhileConnected ==
    [][ (last'[1] = "join" /\ connected)
        => /\ UNCHANGED <<mvars, followInterval, dvars>>
           /\ sent' = <<>>
           /\ ret' = IF room = last'[2] THEN <<"AlreadyInRoom">>
                                        ELSE <<"AlreadyConnected">> ]_vars

\* join of the room the engine is in has just returned success, with the
\* one subordinate launched by the first join
C7_Witness ==
    /\ last[1] = "join"
    /\ connected
    /\ room = last[2]
    /\ ret = <<"AlreadyInRoom">>
    /\ Len(procs) = 1

(* C9: after a `left` event or a successful leave(), RoomState has its
   initial shape: not connected, no room, no self id, no peers, no follow
   target, an empty trail, an empty transcript buffer and the initial
   position. *)
C9_ResetOnDisconnect ==
    (last[1] = "left" \/ (last = <<"leave">> /\ ret = <<"Left">>))
    => /\ connected = FALSE
       /\ room = NoRoom
       /\ peerId = NoId
       /\ peers = <<>>
       /\ followTarget = NoName
       /\ followBreadcrumbs = <<>>
       /\ pendingTranscripts = <<>>
       /\ position = InitPos

(* C10: leave, speak, move, follow and status called while not connected
   return NotConnected, write nothing to the subordinate and change
   nothing. *)
C10_NotConnected ==
    [][ ( /\ last'[1] \in {"leave", "speak", "move", "follow", "status"}
          /\ ~ connected )
        => /\ ret' = <<"NotConnected">>
           /\ sent' = <<>>
           /\ UNCHANGED <<mvars, followInterval, dvars, statusWaiting>> ]_vars

\* move has just been refused while a subordinate was still starting
C10_Witness ==
    /\ last[1] = "move"
    /\ ret = <<"NotConnected">>
    /\ ~ connected
    /\ proc # NoProc
    /\ position = InitPos

---------------------------------------------------------------------------
(* Supervision: the command surface against a subordinate that may fail to *)
(* start, join late, leave, close its stdin or exit at any moment, with    *)
(* the spawn and kill timers of the daemon firing whenever they are armed. *)

NextSup ==
    \/ \E r \in Rooms : JoinCapped(SupProcs, r, NoName)
    \/ \E p \in 1..SupProcs : JoinResume(p)
    \/ Leave
    \/ Speak("hi")
    \/ \E p \in 1..SupProcs : LineJoined(p)
    \/ \E p \in 1..SupProcs : LineLeft(p)
    \/ \E p \in 1..SupProcs : ProcExit(p)
    \/ \E p \in 1..SupProcs : SpawnError(p)
    \/ \E p \in 1..SupProcs : StdinClose(p)
    \/ \E p \in 1..SupProcs : SpawnTimeout(p)
    \/ KillTimer

SpecSup == Init /\ [][NextSup]_vars

\* the methods of the command surface, with the resumptions of the two
\* that wait
CommandSteps ==
    {"join", "join_resume", "leave", "speak", "move", "follow", "unfollow",
     "status", "status_resume"}

(* C12: in every reachable state, also after the subordinate has exited or
   closed its stdin while the engine is still marked connected, a command
   of the command surface returns a result and does not throw. *)
C12_NeverThrows ==
    last[1] \in CommandSteps => ret # <<"Throws">>

(* C13: when the 15 s timer of a start fires and no `joined` has been seen
   from the subordinate that start launched, the start is rejected and that
   subordinate, if still running, is the one kill() is aimed at; when
   `joined` has been seen from it, the timer settles no promise, writes
   nothing and arms no kill timer. *)
C13_SpawnTimeout ==
    [][ \A p \in DOMAIN procs :
          last' = <<"spawn_timeout", p>> =>
            IF procs[p].phase = "starting"
            THEN /\ promise'[p] # "pending"
                 /\ procs[p].alive => (proc = p /\ killTimers' = killTimers + 1)
            ELSE /\ promise' = promise
                 /\ killTimers' = killTimers
                 /\ sent' = <<>> ]_vars

\* the subordinates that have not exited
Live(ps) == {p \in DOMAIN ps : ps[p].alive}

(* C14: a join that reaches spawn while the daemon holds a process launches
   nothing, and at most one subordinate process is running at any time. *)
C14_OneSubordinate ==
    [][ /\ (last'[1] = "join" /\ proc # NoProc) => procs' = procs
        /\ Cardinality(Live(procs')) <= 1 ]_vars

(* C15: a connected engine is disconnected by leave(), by a `left` event,
   and by the exit of the subordinate it is connected through. *)
C15_ConnectedExits ==
    [][ ( /\ connected
          /\ \/ last' = <<"leave">>
             \/ last'[1] = "left"
             \/ (last'[1] = "exit" /\ peerId = SelfIdOf(last'[2])) )
        => ~ connected' ]_vars

(* C16: when the subordinate has exited while the engine was connected, a
   join(room), of the same room or another, launches a new subordinate for
   that room. *)
C16_RejoinAfterExit ==
    [][ ( /\ connected
          /\ Live(procs) = {}
          /\ last'[1] = "join" )
        => /\ Len(procs') = Len(procs) + 1
           /\ procs'[Len(procs')].room = last'[2]
           /\ procs'[Len(procs')].alive ]_vars

(* C18: once a join has returned its failure after a spawn error or the
   spawn timeout, the engine stays disconnected until a later join: a
   `joined` line the subordinate of the failed join still emits does not
   connect it. *)
C18_FailedJoinStaysDisconnected ==
    [][ ( /\ last'[1] = "joined"
          /\ promise[last'[2]] = "done" )
        => ~ connected' ]_vars

---------------------------------------------------------------------------
(* Breadcrumb spacing: the followed peer moving by nothing, by exactly the *)
(* spacing and by just over it, while follows start and stop and the       *)
(* stepper ticks.                                                          *)

NextSpacing ==
    \/ Join("forest", NoName)
    \/ \E p \in 1..MaxProcs : JoinResume(p)
    \/ \E p \in 1..MaxProcs : LineJoined(p)
    \/ \E p \in 1..MaxProcs, pos \in {NoPos, East} :
          LinePeerJoin(p, "p1", David, pos)
    \/ \E p \in 1..MaxProcs, pos \in {East, East5, East2} :
          TrailPeerMoved(p, "p1", pos)
    \/ Follow(david)
    \/ Unfollow
    \/ Tick

SpecSpacing == Init /\ [][NextSpacing]_vars

(* C20: any two consecutive breadcrumbs of the trail are more than 5 units
   apart, whoever appended them (a peer_moved event, a tick, or follow's
   seed) and whatever was dropped from the front. *)
C20_CrumbSpacing ==
    \A i \in 1..(Len(followBreadcrumbs) - 1) :
        DistSq(followBreadcrumbs[i], followBreadcrumbs[i + 1])
            > MinSpacing * MinSpacing

\* a peer_moved event has just appended a second breadcrumb, 6 from the
\* first, to the seed follow left
C20_Witness ==
    /\ last[1] = "peer_moved"
    /\ was.followBreadcrumbs = <<East>>
    /\ followBreadcrumbs = <<East, East2>>
    /\ DistSq(East, East2) > MinSpacing * MinSpacing
    /\ DistSq(East, East5) = MinSpacing * MinSpacing

---------------------------------------------------------------------------
(* distance() tabulated: a pair of grid positions is drawn, and distance   *)
(* is applied to it.                                                       *)

Grid == (0..GridMax) \X (0..GridMax)

InitDistance ==
    /\ connected = FALSE
    /\ room = NoRoom
    /\ peerId = NoId
    /\ agentName = NoName
    /\ position = InitPos
    /\ peers = <<>>
    /\ followTarget = NoName
    /\ followBreadcrumbs = <<>>
    /\ pendingTranscripts = <<>>
    /\ followInterval = FALSE
    /\ intervals = 0
    /\ onTranscript = 0
    /\ proc = NoProc
    /\ ready = FALSE
    /\ procs = <<>>
    /\ promise = <<>>
    /\ spawnTimers = {}
    /\ killTimers = 0
    /\ statusWaiting = 0
    /\ \E a \in Grid, b \in Grid : last = <<"positions", a, b>>
    /\ was = [followTarget |-> NoName, followBreadcrumbs |-> <<>>]
    /\ sent = <<>>
    /\ ret = <<"none">>
    /\ heard = <<>>

\* distance(a, b), on the pair drawn: the radicand is returned
distance ==
    /\ last[1] = "positions"
    /\ Did(<<"distance", last[2], last[3]>>)
    /\ ret' = <<DistSq(last[2], last[3])>>
    /\ sent' = <<>> /\ heard' = <<>>
    /\ UNCHANGED <<mvars, followInterval, intervals, dvars, statusWaiting,
                   onTranscript>>

NextDistance == distance

SpecDistance == InitDistance /\ [][NextDistance]_vars

(* C19: distance is symmetric, zero on equal positions and strictly
   positive on distinct ones, for all pairs of positions of the grid;
   stated on the squared distance. *)
C19_DistanceMetric ==
    last[1] = "distance" =>
        /\ ret[1] = DistSq(last[3], last[2])
        /\ last[2] = last[3] => ret[1] = 0
        /\ last[2] # last[3] => ret[1] > 0

\* distance has been applied to two distinct positions that differ in y
\* only
C19_Witness ==
    /\ last[1] = "distance"
    /\ last[2][1] = last[3][1]
    /\ last[2][2] < last[3][2]
    /\ ret[1] > 0

---------------------------------------------------------------------------
(* C22, under SpecRoster: whenever a peer_leave, peers or status event
   leaves no peer of the roster bearing the followed name, follow is
   cleared in that step, so that after the event a follow target is always
   the name of some peer of the roster. *)
C22_RosterAutoClear ==
    [][ ( /\ last'[1] \in {"peer_leave", "peers", "status"}
          /\ followTarget # NoName
          /\ ~ Named(peers', followTarget) )
        => followTarget' = NoName ]_vars

\* the position of the followed peer: NoPos when nobody is followed, the
\* peer is absent or the peer has no position
TargetPos ==
    LET t == IF followTarget = NoName THEN 0
             ELSE findPeerByName(peers, followTarget)
    IN  IF t = 0 THEN NoPos ELSE peers[t].position

\* the step is a tick of a connected agent whose target is placed and at
\* most followDistance away
CloseTick ==
    /\ last' = <<"tick">>
    /\ connected
    /\ TargetPos # NoPos
    /\ DistSq(position, TargetPos) <= followDistance * followDistance

(* C23, under SpecFollow: a tick that finds the target at most
   followDistance away writes nothing but a step=0 move at the current
   position (exactly that when the subordinate accepts writes); the own
   position and the follow target are unchanged, every breadcrumb of the
   trail is kept in its place, and the stepper stays armed. *)
C23_CloseTickStationary ==
    [][ CloseTick =>
          /\ \A i \in DOMAIN sent' : sent'[i] = <<"move", position, "step0">>
          /\ Len(sent') <= 1
          /\ Writable => Len(sent') = 1
          /\ position' = position
          /\ followTarget' = followTarget
          /\ Len(followBreadcrumbs') >= Len(followBreadcrumbs)
          /\ SubSeq(followBreadcrumbs', 1, Len(followBreadcrumbs)) = followBreadcrumbs
          /\ followInterval' = followInterval
          /\ intervals' = intervals
          /\ followInterval' ]_vars

\* after walking, a tick has found the target exactly followDistance away
\* and has written the step=0 move
C23_Witness ==
    /\ last = <<"tick">>
    /\ followTarget # NoName
    /\ TargetPos # NoPos
    /\ position # InitPos
    /\ DistSq(position, TargetPos) = followDistance * followDistance
    /\ sent = <<<<"move", position, "step0">>>>
    /\ followBreadcrumbs = was.followBreadcrumbs
    /\ followBreadcrumbs # <<>>
    /\ followInterval

---------------------------------------------------------------------------
(* The stepper's geometry: a followed peer that moves off the line y = 230 *)
(* between a point exactly one step from the agent's initial position, a   *)
(* point up and to the right and a point down and to the left.             *)

Knee == <<266, 242>>
Diag == <<300, 300>>
Back == <<200, 150>>

NextStep ==
    \/ Join("forest", NoName)
    \/ \E p \in 1..MaxProcs : JoinResume(p)
    \/ \E p \in 1..MaxProcs : LineJoined(p)
    \/ \E p \in 1..MaxProcs : LinePeerJoin(p, "p1", David, Knee)
    \/ \E p \in 1..MaxProcs, pos \in {Knee, Diag, Back} :
          TrailPeerMoved(p, "p1", pos)
    \/ Follow(david)
    \/ Tick

SpecStep == Init /\ [][NextStep]_vars

\* the step is a tick that changes the own position or writes a step=1 move
MovingTick ==
    /\ last' = <<"tick">>
    /\ \/ position' # position
       \/ sent' # <<>> /\ sent'[1][3] = "step1"

(* C24: a tick that moves heads for the oldest breadcrumb left on the
   trail.  When that waypoint is at most followStepSize away the new
   position is the waypoint; otherwise the new position is within rounding
   (half a unit in each coordinate) of the point followStepSize along the
   direction to the waypoint, and not beyond the waypoint.  The one move
   written carries the new position. *)
C24_StepBounded ==
    [][ MovingTick =>
          LET wp    == followBreadcrumbs'[1]
              d2    == DistSq(position, wp)
              mx    == position'[1] - position[1]
              my    == position'[2] - position[2]
              wx    == wp[1] - position[1]
              wy    == wp[2] - position[2]
              cross == mx * wy - my * wx
          IN  /\ sent' = <<<<"move", position', "step1">>>>
              /\ d2 <= followStepSize * followStepSize => position' = wp
              /\ d2 > followStepSize * followStepSize =>
                    \* 19.29 < |move| < 20.71
                    /\ 373 <= mx * mx + my * my
                    /\ mx * mx + my * my <= 428
                    \* along the direction to the waypoint
                    /\ mx * wx + my * wy > 0
                    /\ 2 * cross * cross <= d2
                    \* not beyond the waypoint
                    /\ (wp[1] - position'[1]) * wx
                           + (wp[2] - position'[2]) * wy >= 0 ]_vars

\* a tick has taken a rounded diagonal step: from (250, 230) towards
\* (300, 300), 20 along the direction is (261.6, 246.3), stored as (262, 246)
C24_Witness ==
    /\ last = <<"tick">>
    /\ position = <<262, 246>>
    /\ followBreadcrumbs[1] = Diag
    /\ sent = <<<<"move", position, "step1">>>>

\* a tick has arrived exactly on a waypoint one step away while the target
\* is further on
C24_WitnessArrived ==
    /\ last = <<"tick">>
    /\ position = Knee
    /\ followBreadcrumbs # <<>>
    /\ followBreadcrumbs[1] = Knee
    /\ Len(followBreadcrumbs) > 1
    /\ sent = <<<<"move", Knee, "step1">>>>

---------------------------------------------------------------------------
(* Convergence of the stepper.  The interval timer of startFollowLoop      *)
(* fires every 100 ms for as long as it is armed (manager.ts:289, 342),    *)
(* hence weak fairness of Tick.                                            *)

NextConverge ==
    \/ Join("forest", NoName)
    \/ \E p \in 1..MaxProcs : JoinResume(p)
    \/ \E p \in 1..MaxProcs : LineJoined(p)
    \/ \E p \in 1..MaxProcs : LinePeerJoin(p, "p1", David, Knee)
    \/ \E p \in 1..MaxProcs, pos \in {Knee, Diag} :
          TrailPeerMoved(p, "p1", pos)
    \/ Follow(david)
    \/ Tick

SpecConverge == Init /\ [][NextConverge]_vars /\ WF_vars(Tick)

\* a follow is active, the target is placed, the subordinate accepts writes
Chasing ==
    /\ connected
    /\ followTarget # NoName
    /\ TargetPos # NoPos
    /\ Writable
    /\ intervals > 0

\* self is within followDistance of the target
Arrived ==
    /\ TargetPos # NoPos
    /\ DistSq(position, TargetPos) <= followDistance * followDistance

(* C25: under fair ticks, a follow that stays active with the subordinate
   up and the target staying at one place brings self within
   followDistance of the target: from every state in which the target is
   chased at a place, a state is reached in which self has arrived, or the
   follow is no longer active, or the target is elsewhere.  A tick that
   finds self arrived does not move it.  On the way every tick leaves a
   non-empty trail that is a tail of the trail it found, extended by the
   target's position at most: breadcrumbs are consumed from the oldest end
   only. *)
C25_FollowConverges ==
    /\ [][ (last' = <<"tick">> /\ Chasing) =>
              /\ followBreadcrumbs' # <<>>
              /\ \/ IsSuffix(followBreadcrumbs', followBreadcrumbs)
                 \/ IsSuffix(followBreadcrumbs',
                             Append(followBreadcrumbs, TargetPos))
              /\ Arrived => position' = position ]_vars
    /\ \A place \in {Knee, Diag} :
          (Chasing /\ TargetPos = place)
              ~> (Arrived \/ ~ Chasing \/ TargetPos # place)

\* a tick has found self within followDistance of the target after walking
\* the trail through Knee to Diag, and has written the step=0 move
C25_Witness ==
    /\ last = <<"tick">>
    /\ Chasing
    /\ TargetPos = Diag
    /\ Arrived
    /\ position # InitPos
    /\ followBreadcrumbs = <<Diag>>
    /\ sent = <<<<"move", position, "step0">>>>

\* a tick has consumed the oldest breadcrumb of a trail of two
C25_WitnessConsumed ==
    /\ last = <<"tick">>
    /\ was.followBreadcrumbs = <<Knee, Diag>>
    /\ followBreadcrumbs = <<Diag>>

---------------------------------------------------------------------------
(* The daemon's line handler and kill(): one subordinate after another,    *)
(* writing well-formed and malformed lines, closing its stdin or exiting,  *)
(* while the agent joins and leaves and the timers fire.                   *)

NextDaemon ==
    \/ Join("forest", NoName)
    \/ \E p \in 1..MaxProcs : JoinResume(p)
    \/ Leave
    \/ \E p \in 1..MaxProcs : LineJoined(p)
    \/ \E p \in 1..MaxProcs : LinePeerJoin(p, "p1", David, East)
    \/ \E p \in 1..MaxProcs : LineLeft(p)
    \/ \E p \in 1..MaxProcs : LineGarbage(p)
    \/ \E p \in 1..MaxProcs : ProcExit(p)
    \/ \E p \in 1..MaxProcs : StdinClose(p)
    \/ \E p \in 1..MaxProcs : SpawnTimeout(p)
    \/ KillTimer

SpecDaemon == Init /\ [][NextDaemon]_vars

(* C27: a line that is not well-formed JSON changes nothing: no handler is
   invoked, the manager's state, the daemon's handle and readiness, the
   subordinates and the promises of pending starts are what they were, so
   that the lines after it meet the state the line before it left. *)
C27_GarbageIgnored ==
    [][ last'[1] = "garbage" =>
          /\ UNCHANGED <<mvars, followInterval, intervals>>
          /\ UNCHANGED <<proc, ready, procs, promise, spawnTimers, killTimers>>
          /\ UNCHANGED <<statusWaiting, onTranscript>>
          /\ heard' = <<>>
          /\ sent' = <<>> ]_vars

\* a malformed line has arrived from a subordinate whose start is pending
C27_Witness ==
    /\ last[1] = "garbage"
    /\ procs[last[2]].phase = "starting"
    /\ promise[last[2]] = "pending"
    /\ ~ ready
    /\ ~ connected

\* a malformed line has arrived in the room, between events
C27_WitnessInRoom ==
    /\ last[1] = "garbage"
    /\ procs[last[2]].phase = "joined"
    /\ connected
    /\ peers # <<>>

\* the step calls RamblyDaemon.kill: leave() of a connected agent, or the
\* spawn timer firing while the daemon is not ready
KillStep ==
    \/ last' = <<"leave">> /\ connected
    \/ last'[1] = "spawn_timeout" /\ ~ ready

(* C28: kill() with a subordinate held writes `leave` when the subordinate
   takes writes and nothing when it does not (the failure does not reach
   the caller), arms the grace timer and leaves the handle and the
   subordinate as they are; kill() with no subordinate held writes nothing
   and arms nothing.  When the grace timer fires the held subordinate is
   sent SIGTERM, and afterwards no handle is held and the daemon is not
   ready. *)
C28_KillGraceful ==
    [][ /\ (KillStep /\ proc # NoProc) =>
              /\ sent' = IF Writable THEN <<<<"leave">>>> ELSE <<>>
              /\ ret' # <<"Throws">>
              /\ killTimers' = killTimers + 1
              /\ proc' = proc
              /\ procs'[proc].alive = procs[proc].alive
        /\ (KillStep /\ proc = NoProc) =>
              /\ sent' = <<>>
              /\ UNCHANGED <<proc, ready, procs, killTimers>>
        /\ last'[1] = "kill_timer" =>
              /\ killTimers > 0
              /\ last'[2] = proc
              /\ proc' = NoProc
              /\ ~ ready' ]_vars

\* the grace timer of a leave() has fired on the subordinate that was
\* stopped: no handle is held, the daemon is not ready
C28_Witness ==
    /\ last[1] = "kill_timer"
    /\ last[2] # NoProc
    /\ procs[last[2]].stopping
    /\ procs[last[2]].phase = "joined"
    /\ proc = NoProc
    /\ ~ ready
    /\ killTimers = 0

\* leave() has called kill() with no subordinate held
C28_WitnessIdle ==
    /\ last = <<"leave">>
    /\ ret = <<"Left">>
    /\ proc = NoProc
    /\ killTimers = 0
    /\ sent = <<>>

---------------------------------------------------------------------------
(* C29, under SpecSup: the grace timer of kill() only reaches the
   subordinate kill() was called on: when the timer fires while a
   subordinate is held, that subordinate is one kill() has been called on;
   a subordinate launched since is neither sent SIGTERM nor dropped from
   the handle. *)
C29_KillTimerOwnProcess ==
    [][ (last'[1] = "kill_timer" /\ proc # NoProc) => procs[proc].stopping ]_vars

(* C30, under SpecSup: the spawn timer of one start never acts on the
   subordinate of a later start: when the timer of subordinate p fires
   after p's start has resolved or failed, while another subordinate is
   held, no leave is written to that subordinate and no grace timer is
   armed against it. *)
C30_SpawnTimerOwnProcess ==
    [][ ( /\ last'[1] = "spawn_timeout"
          /\ promise[last'[2]] # "pending"
          /\ proc # NoProc
          /\ proc # last'[2] )
        => /\ sent' = <<>>
           /\ killTimers' = killTimers
           /\ procs' = procs ]_vars

---------------------------------------------------------------------------
(* The transcript buffer and the transcript subscription: one subordinate  *)
(* in the room, transcripts from Bob and from the agent itself, unplaced   *)
(* or out of earshot, and handlers registered one after another.  The text *)
(* of a transcript is a serial number, so that the buffer shows which      *)
(* entries it has kept.                                                    *)

MaxHandlers == 2

\* the serial number after that of the newest buffered entry
NextText ==
    IF pendingTranscripts = <<>>
    THEN 0
    ELSE (pendingTranscripts[Len(pendingTranscripts)].text + 1)
             % (MaxTranscripts + 1)

NextBuffer ==
    \/ Join("forest", NoName)
    \/ \E p \in 1..MaxProcs : JoinResume(p)
    \/ \E p \in 1..MaxProcs : LineJoined(p)
    \/ \E p \in 1..MaxProcs, n \in {Bob, Agent}, pos \in {NoPos, Near, Far} :
          LineTranscript(p, "p1", n, NextText, pos)
    \/ \E h \in 1..MaxHandlers : SetTranscriptHandler(h)
    \/ ClearTranscripts

SpecBuffer == Init /\ [][NextBuffer]_vars

\* the step delivers a transcript that handleTranscript accepts
AcceptedStep ==
    /\ last'[1] = "transcript"
    /\ ~ isOwnTranscript(last'[3])
    /\ ~ tooFar(last'[5])

(* C21: the transcript buffer never holds more than 10 entries; an accepted
   transcript is appended after the entries already held, and when the
   buffer already holds 10 the oldest entry is the one dropped. *)
C21_BufferBound ==
    [][ /\ Len(pendingTranscripts') <= 10
        /\ AcceptedStep =>
              LET e == [name |-> last'[3], text |-> last'[4]]
              IN  pendingTranscripts' =
                      IF Len(pendingTranscripts) = 10
                      THEN Append(Tail(pendingTranscripts), e)
                      ELSE Append(pendingTranscripts, e) ]_vars

\* an 11th transcript has been accepted: the buffer holds the serial
\* numbers 1 to 10, number 0 having been evicted
C21_Witness ==
    /\ last[1] = "transcript"
    /\ Len(pendingTranscripts) = 10
    /\ pendingTranscripts[1].text = 1
    /\ pendingTranscripts[10].text = 10

(* C26: registering a handler makes it the only handler; each accepted
   transcript invokes the handler registered last exactly once and no
   other handler, and with no handler registered an accepted transcript
   invokes nothing and is still buffered. *)
C26_SingleSlot ==
    [][ /\ last'[1] = "set_handler" => onTranscript' = last'[2]
        /\ last'[1] # "set_handler" => onTranscript' = onTranscript
        /\ AcceptedStep =>
              /\ pendingTranscripts' # <<>>
              /\ pendingTranscripts'[Len(pendingTranscripts')] =
                     [name |-> last'[3], text |-> last'[4]]
              /\ IF onTranscript = 0
                 THEN heard' = <<>>
                 ELSE /\ Len(heard') = 1
                      /\ heard'[1].handler = onTranscript
                      /\ heard'[1].text = last'[4]
        /\ ~ AcceptedStep => heard' = <<>> ]_vars

\* handler 2, registered after handler 1 had been invoked, has been
\* invoked for an accepted transcript
C26_Witness ==
    /\ last[1] = "transcript"
    /\ Len(heard) = 1
    /\ heard[1].handler = 2
    /\ Len(pendingTranscripts) >= 2

\* an accepted transcript has been buffered with no handler registered
C26_WitnessUnheard ==
    /\ last[1] = "transcript"
    /\ onTranscript = 0
    /\ pendingTranscripts # <<>>
    /\ heard = <<>>

---------------------------------------------------------------------------
(* C31, under SpecHear: a join that returns a failure leaves RoomState as
   it was, the own display name included: a join refused because a
   subordinate is already being started does not change the name against
   which transcripts are filtered. *)
C31_FailedJoinKeepsState ==
    [][ (last'[1] = "join" /\ ret' = <<"FailedToJoin">>)
        => UNCHANGED <<connected, room, peerId, agentName, position, peers,
                       followTarget, followBreadcrumbs, pendingTranscripts>> ]_vars

(* C32, under SpecConn: while the agent is disconnected, an event of a
   subordinate that is still shutting down (peer_join, peers, status,
   moved, transcript) changes neither the roster, the room, the own
   position nor the transcript buffer, and invokes no transcript handler. *)
C32_DisconnectedStaysReset ==
    [][ ( /\ ~ connected
          /\ last'[1] \in {"peer_join", "peers", "status", "moved", "transcript"} )
        => /\ UNCHANGED <<peers, room, position, pendingTranscripts>>
           /\ heard' = <<>> ]_vars

(* C33, under SpecFollow: a tick of the follow stepper never raises: when
   the stepper's timer fires, either the stepper has nothing to write or
   the subordinate is there to take the move. *)
C33_TickNeverRaises ==
    [][ last' = <<"tick">> => ret' # <<"Throws">> ]_vars

---------------------------------------------------------------------------
(* The trail and its owner: two placed peers, either of which may be       *)
(* followed, moving, leaving and coming back while follows start and stop  *)
(* and the agent leaves the room.                                          *)

NextCrumbs ==
    \/ Join("forest", NoName)
    \/ \E p \in 1..MaxProcs : JoinResume(p)
    \/ Leave
    \/ \E n \in {david, Bob} : Follow(n)
    \/ Unfollow
    \/ Tick
    \/ \E p \in 1..MaxProcs : LineJoined(p)
    \/ \E p \in 1..MaxProcs : LinePeerJoin(p, "p1", David, East)
    \/ \E p \in 1..MaxProcs : LinePeerJoin(p, "p2", Bob, Aside)
    \/ \E p \in 1..MaxProcs, id \in PeerIds, pos \in {NoPos, East, East2} :
          TrailPeerMoved(p, id, pos)
    \/ \E p \in 1..MaxProcs, id \in PeerIds : LinePeerLeave(p, id)
    \/ \E p \in 1..MaxProcs : LineLeft(p)

SpecCrumbs == Init /\ [][NextCrumbs]_vars

\* the roster index of the peer the followed name resolves to, 0 for none
TargetIdx ==
    IF followTarget = NoName THEN 0 ELSE findPeerByName(peers, followTarget)

(* C34: in every reachable state an absent follow target goes with an
   empty trail.  A peer_moved event of a peer other than the one the
   followed name resolves to leaves the trail as it is, and so does every
   step but a follow that starts while nobody is followed. *)
C34_TrailOnlyWhileFollowing ==
    /\ [](followTarget = NoName => followBreadcrumbs = <<>>)
    /\ [][ /\ ( /\ last'[1] = "peer_moved"
                /\ \/ TargetIdx = 0
                   \/ peers[TargetIdx].id # last'[3] )
              => followBreadcrumbs' = followBreadcrumbs
           /\ (followTarget = NoName /\ last'[1] # "follow")
              => followBreadcrumbs' = followBreadcrumbs ]_vars

\* while p1 is followed and has left a trail, p2 has moved to a new place
\* and the trail is what it was
C34_Witness ==
    /\ last[1] = "peer_moved"
    /\ last[3] = "p2"
    /\ last[4] = East2
    /\ followTarget = david
    /\ MapHas(peers, "p2")
    /\ peers[IndexOfId(peers, "p2")].position = East2
    /\ followBreadcrumbs # <<>>
    /\ followBreadcrumbs = was.followBreadcrumbs

\* an unfollow has emptied a trail
C34_WitnessCleared ==
    /\ last = <<"unfollow">>
    /\ was.followBreadcrumbs # <<>>
    /\ followTarget = NoName
    /\ followBreadcrumbs = <<>>

====
